---- MODULE Spec2Model ----
(***************************************************************************)
(* pico-pydantic: ValidationInterceptor (src/src/pico_pydantic/            *)
(* interceptor.py) and the @validate marker (decorators.py).               *)
(*                                                                         *)
(* One in-flight call is a Call Context (MethodCtx) plus the continuation  *)
(* call_next.  invoke runs without suspension up to and including the      *)
(* call of the continuation; the only suspension point is `await res` in   *)
(* _call_next_async.                                                       *)
(***************************************************************************)
EXTENDS Integers, Sequences, FiniteSets, TLC

VARIABLES
    ctx,        \* ctx[c]: the Call Context: cls, name, args, kwargs
    entry,      \* entry[c]: ctx.args / ctx.kwargs as they were when invoke was entered
    pc,         \* pc[c]: "ready" | "awaiting" | "done" | "raised"
    attempt,    \* attempt[c]: which sig.bind attempt produced `bound` (0 none, 1 first, 2 retry)
    engineLog,  \* engineLog[c]: the TypeAdapter.validate_python calls made for this call
    nextCalls,  \* nextCalls[c]: how many times call_next was invoked
    nextSeen,   \* nextSeen[c]: the args / kwargs call_next found in the context it received
    result,     \* result[c]: what invoke returned
    error,      \* error[c]: what invoke raised
    decl,       \* a declared type handed to _requires_pydantic_validation
    shape       \* its classification: "pending" | "validatable" | "not_validatable"

vars == <<ctx, entry, pc, attempt, engineLog, nextCalls, nextSeen, result, error, decl, shape>>
callVars == <<ctx, entry, pc, attempt, engineLog, nextCalls, nextSeen, result, error>>

(***************************************************************************)
(* Bounds                                                                  *)
(***************************************************************************)
MaxPayload == 2     \* positional arguments after the (optional) receiver
MaxDepth == 2       \* nesting depth of the declared types handed to the classifier

(***************************************************************************)
(* Python values.  Every value is a record of one shape so that any two    *)
(* can be compared.                                                        *)
(***************************************************************************)
Obj(tag)     == [kind |-> "obj",  v |-> tag, items |-> <<>>]   \* an opaque object
NoneVal      == [kind |-> "none", v |-> 0,   items |-> <<>>]
IntVal(n)    == [kind |-> "int",  v |-> n,   items |-> <<>>]
RawDict(n)   == [kind |-> "dict", v |-> n,   items |-> <<>>]   \* {"id": n, "name": ...}
ItemObj(n)   == [kind |-> "Item", v |-> n,   items |-> <<>>]   \* Item(id=n, name=...)
ListVal(s)   == [kind |-> "list", v |-> 0,   items |-> s]

Receiver == Obj(0)      \* Mock(spec=TestService) / the class object
Other    == Obj(1)      \* NonPydanticArg()
Good     == RawDict(1)
Bad      == RawDict(-5)

EmptyMap == [k \in {} |-> NoneVal]

(***************************************************************************)
(* Declared types (parameter annotations).                                 *)
(*   Item            a BaseModel subclass                                  *)
(*   int, NoneType, NonPydanticArg   classes that are not models           *)
(*   List, Union     typing aliases: not classes, carry __args__           *)
(*                   (Optional[X] is Union[X, NoneType])                   *)
(*   Forward         a string annotation: no class, no __args__            *)
(*   Opaque          an object whose inspection raises; may carry __args__ *)
(*   empty           inspect.Parameter.empty                               *)
(***************************************************************************)
Ann(t, args) == [t |-> t, args |-> args]
EmptyT    == Ann("empty", <<>>)
ItemT     == Ann("Item", <<>>)
IntT      == Ann("int", <<>>)
NoneT     == Ann("NoneType", <<>>)
PlainT    == Ann("NonPydanticArg", <<>>)
ForwardT  == Ann("Forward", <<>>)
ListOf(a)     == Ann("List", <<a>>)
UnionOf(a, b) == Ann("Union", <<a, b>>)
OptionalOf(a) == UnionOf(a, NoneT)
OpaqueOf(args) == Ann("Opaque", args)

IsClass(a)       == a.t \in {"Item", "int", "NoneType", "NonPydanticArg"}
IsBaseModel(a)   == a.t = "Item"
HasArgs(a)       == a.t \in {"List", "Union", "Opaque"}
InspectRaises(a) == a.t = "Opaque"

\* _requires_pydantic_validation with any() replaced by all(): a wrapper
\* counts only when every type argument is validatable.
RECURSIVE RequiresAllArgs(_)
RequiresAllArgs(a) ==
    IF InspectRaises(a) THEN FALSE
    ELSE IF IsClass(a) /\ IsBaseModel(a) THEN TRUE
    ELSE IF HasArgs(a)
         THEN \A i \in 1..Len(a.args) : RequiresAllArgs(a.args[i])
         ELSE FALSE

\* _requires_pydantic_validation (interceptor.py 52-62)
RECURSIVE RequiresPydanticValidation(_)
RequiresPydanticValidation(a) ==
    IF InspectRaises(a) THEN FALSE                         \* except Exception: return False
    ELSE IF IsClass(a) /\ IsBaseModel(a) THEN TRUE
    ELSE IF HasArgs(a)
         THEN \E i \in 1..Len(a.args) : RequiresPydanticValidation(a.args[i])
         ELSE FALSE

(***************************************************************************)
(* The validation engine: TypeAdapter(annotation).validate_python(value).  *)
(* Item requires id > 0 (Field(gt=0)).  A rejection carries the location   *)
(* (list indices) and the offending value.                                 *)
(***************************************************************************)
NoDiag == [loc |-> <<>>, bad |-> NoneVal]
Accept(v)       == [ok |-> TRUE,  out |-> v, diag |-> NoDiag]
Reject(loc, v)  == [ok |-> FALSE, out |-> v, diag |-> [loc |-> loc, bad |-> v]]

RECURSIVE ValidatePython(_, _)
RECURSIVE ValidateElements(_, _, _, _)

\* elements i.. of a list, in order; acc holds the validated prefix
ValidateElements(a, xs, i, acc) ==
    IF i > Len(xs) THEN Accept(ListVal(acc))
    ELSE LET r == ValidatePython(a, xs[i]) IN
         IF r.ok THEN ValidateElements(a, xs, i + 1, Append(acc, r.out))
         ELSE Reject(<<i>> \o r.diag.loc, r.diag.bad)

ValidatePython(a, v) ==
    CASE a.t = "Item" ->
            IF v.kind = "Item" THEN Accept(v)
            ELSE IF v.kind = "dict" /\ v.v > 0 THEN Accept(ItemObj(v.v))
            ELSE Reject(<<>>, v)
      [] a.t = "int" -> IF v.kind = "int" THEN Accept(v) ELSE Reject(<<>>, v)
      [] a.t = "NoneType" -> IF v.kind = "none" THEN Accept(v) ELSE Reject(<<>>, v)
      [] a.t = "List" ->
            IF v.kind = "list" THEN ValidateElements(a.args[1], v.items, 1, <<>>)
            ELSE Reject(<<>>, v)
      [] a.t = "Union" ->
            \* the first alternative that accepts the value
            IF \E i \in 1..Len(a.args) : ValidatePython(a.args[i], v).ok
            THEN LET i == CHOOSE i \in 1..Len(a.args) :
                              /\ ValidatePython(a.args[i], v).ok
                              /\ \A j \in 1..(i - 1) : ~ValidatePython(a.args[j], v).ok
                 IN ValidatePython(a.args[i], v)
            ELSE Reject(<<>>, v)
      [] OTHER -> Reject(<<>>, v)

(***************************************************************************)
(* Methods.  Lookup(name) is what getattr(ctx.cls, ctx.name, None) gives   *)
(* and what inspect.signature makes of it: a function taken from the class *)
(* keeps its receiver parameter, a classmethod arrives bound (no cls       *)
(* parameter), a staticmethod has none.  @validate sets the flag on the    *)
(* function and functools.wraps carries it to the wrapper.                 *)
(***************************************************************************)
Param(name, kind, ann) ==
    [name |-> name, kind |-> kind, ann |-> ann, hasDefault |-> FALSE, default |-> NoneVal]
ParamDef(name, kind, ann, default) ==
    [name |-> name, kind |-> kind, ann |-> ann, hasDefault |-> TRUE, default |-> default]
Self == Param("self", "POK", EmptyT)

Method(marked, sig) == [found |-> TRUE, marked |-> marked, sig |-> sig]
Unresolved == [found |-> FALSE, marked |-> FALSE, sig |-> <<>>]

\* tests/test_validation.py TestService
TestService ==
    [ simple_method   |-> Method(TRUE,  <<Self, Param("item", "POK", ItemT)>>),
      list_method     |-> Method(TRUE,  <<Self, Param("items", "POK", ListOf(ItemT))>>),
      optional_method |-> Method(TRUE,  <<Self, ParamDef("item", "POK", OptionalOf(ItemT), NoneVal)>>),
      union_method    |-> Method(TRUE,  <<Self, Param("data", "POK", UnionOf(ItemT, IntT))>>),
      mixed_method    |-> Method(TRUE,  <<Self, Param("item", "POK", ItemT),
                                          Param("other", "POK", PlainT)>>),
      method_with_defaults |-> Method(TRUE, <<Self, Param("item", "POK", ItemT),
                                          ParamDef("limit", "POK", IntT, IntVal(10))>>),
      non_validated   |-> Method(FALSE, <<Self, Param("item", "POK", ItemT)>>) ]

\* tests/test_edge_cases.py ComplexService: the classmethod and the staticmethod
ComplexService ==
    [ class_method_op  |-> Method(TRUE, <<Param("item", "POK", ItemT)>>),
      static_method_op |-> Method(TRUE, <<Param("item", "POK", ItemT)>>) ]

\* Further marked methods the interceptor is called with: two validatable
\* parameters, an untyped parameter, keyword-only and **extra parameters,
\* and a staticmethod with a defaulted parameter.
ProbeService ==
    [ pair_method    |-> Method(TRUE, <<Self, Param("first", "POK", ItemT),
                                        Param("second", "POK", ItemT)>>),
      untyped_method |-> Method(TRUE, <<Self, Param("item", "POK", EmptyT)>>),
      keyword_method |-> Method(TRUE, <<Self, Param("item", "POK", ItemT),
                                        ParamDef("extra_item", "KWONLY", OptionalOf(ItemT), NoneVal),
                                        Param("extra", "VARKW", EmptyT)>>),
      static_with_default |-> Method(TRUE, <<Param("item", "POK", ItemT),
                                        ParamDef("limit", "POK", IntT, IntVal(10))>>) ]

Methods == TestService @@ ComplexService @@ ProbeService
MethodNames == DOMAIN Methods \cup {"missing"}

\* getattr(ctx.cls, ctx.name, None)
Lookup(name) == IF name \in DOMAIN Methods THEN Methods[name] ELSE Unresolved

\* the marker test of invoke with the flag ignored
IsMarkedAlways(func) == func.found

\* `original_func and getattr(original_func, VALIDATE_META, False)` (interceptor.py 12)
IsMarked(func) == func.found /\ func.marked

(***************************************************************************)
(* inspect.Signature.bind + BoundArguments.apply_defaults, .args, .kwargs  *)
(***************************************************************************)
Range(s) == {s[i] : i \in 1..Len(s)}
PosParams(sig)   == {i \in 1..Len(sig) : sig[i].kind = "POK"}
NamedParams(sig) == {i \in 1..Len(sig) : sig[i].kind # "VARKW"}
HasVarKw(sig)    == \E i \in 1..Len(sig) : sig[i].kind = "VARKW"
NamesOf(sig, idx) == {sig[i].name : i \in idx}

\* sig.bind(*args, **kwargs) raises no TypeError
BindOK(sig, args, kwargs) ==
    /\ Len(args) <= Cardinality(PosParams(sig))                  \* too many positional arguments
    /\ \A i \in 1..Len(args) : sig[i].name \notin DOMAIN kwargs  \* multiple values for argument
    /\ \A i \in NamedParams(sig) :                               \* missing a required argument
          i > Len(args) => (sig[i].name \in DOMAIN kwargs \/ sig[i].hasDefault)
    /\ HasVarKw(sig) \/ DOMAIN kwargs \subseteq NamesOf(sig, NamedParams(sig))
                                                                 \* unexpected keyword argument

\* bound.arguments after apply_defaults: the named parameters' values, and
\* the keyword arguments the ** parameter collected
BoundArguments(sig, args, kwargs) ==
    [ vals  |-> [n \in NamesOf(sig, NamedParams(sig)) |->
                    LET i == CHOOSE i \in 1..Len(sig) : sig[i].name = n IN
                    IF i <= Len(args) THEN args[i]
                    ELSE IF n \in DOMAIN kwargs THEN kwargs[n]
                    ELSE sig[i].default],
      extra |-> [k \in DOMAIN kwargs \ NamesOf(sig, NamedParams(sig)) |-> kwargs[k]] ]

Rest(args) == SubSeq(args, 2, Len(args))      \* args[1:]

\* the binder without its second attempt
BindNoRetry(sig, args, kwargs) ==
    IF BindOK(sig, args, kwargs)
    THEN [ok |-> TRUE, attempt |-> 1, bound |-> BoundArguments(sig, args, kwargs)]
    ELSE [ok |-> FALSE, attempt |-> 0, bound |-> [vals |-> EmptyMap, extra |-> EmptyMap]]

\* interceptor.py 25-33: bind, on TypeError bind again without the first
\* positional argument; a second TypeError propagates
Bind(sig, args, kwargs) ==
    IF BindOK(sig, args, kwargs)
    THEN [ok |-> TRUE, attempt |-> 1, bound |-> BoundArguments(sig, args, kwargs)]
    ELSE IF BindOK(sig, Rest(args), kwargs)
    THEN [ok |-> TRUE, attempt |-> 2, bound |-> BoundArguments(sig, Rest(args), kwargs)]
    ELSE [ok |-> FALSE, attempt |-> 0, bound |-> [vals |-> EmptyMap, extra |-> EmptyMap]]

\* bound.args patched in place of the caller's layout: only as many
\* positional values as the caller passed positionally
BoundArgsAsPassed(sig, vals, npos) ==
    [i \in 1..npos |-> vals[sig[i].name]]

\* bound.args: every positional-or-keyword parameter, in declaration order
BoundArgs(sig, vals, npos) ==
    [i \in 1..Cardinality(PosParams(sig)) |-> vals[sig[i].name]]

\* bound.kwargs: the keyword-only parameters and what ** collected
BoundKwargs(sig, vals, extra) ==
    LET kwonly == {sig[i].name : i \in {j \in 1..Len(sig) : sig[j].kind = "KWONLY"}} IN
    [k \in kwonly \cup DOMAIN extra |-> IF k \in kwonly THEN vals[k] ELSE extra[k]]

(***************************************************************************)
(* _validate_and_transform (interceptor.py 24-50)                          *)
(***************************************************************************)
LogEntry(name, val, r) ==
    [param |-> name, val |-> val, ok |-> r.ok, out |-> r.out, diag |-> r.diag]

\* the loop with the classifier left out: every annotated parameter goes
\* to the engine
RECURSIVE TransformEveryAnnotated(_, _, _, _, _)
TransformEveryAnnotated(sig, i, vals, validated, log) ==
    IF i > Len(sig) THEN [ok |-> TRUE, validated |-> validated, log |-> log, diag |-> NoDiag]
    ELSE LET p == sig[i] IN
         IF p.name \in {"self", "cls"} \/ p.ann = EmptyT
         THEN TransformEveryAnnotated(sig, i + 1, vals, validated, log)
         ELSE LET r == ValidatePython(p.ann, vals[p.name]) IN
              IF r.ok
              THEN TransformEveryAnnotated(sig, i + 1, vals,
                                 [validated EXCEPT ![p.name] = r.out],
                                 Append(log, LogEntry(p.name, vals[p.name], r)))
              ELSE [ok |-> FALSE, validated |-> validated,
                    log |-> Append(log, LogEntry(p.name, vals[p.name], r)), diag |-> r.diag]

\* the loop with None short-circuited before the engine is reached
RECURSIVE TransformSkipNone(_, _, _, _, _)
TransformSkipNone(sig, i, vals, validated, log) ==
    IF i > Len(sig) THEN [ok |-> TRUE, validated |-> validated, log |-> log, diag |-> NoDiag]
    ELSE LET p == sig[i] IN
         IF p.name \in {"self", "cls"} \/ p.ann = EmptyT
            \/ vals[p.name] = NoneVal
         THEN TransformSkipNone(sig, i + 1, vals, validated, log)
         ELSE IF RequiresPydanticValidation(p.ann)
         THEN LET r == ValidatePython(p.ann, vals[p.name]) IN
              IF r.ok
              THEN TransformSkipNone(sig, i + 1, vals,
                                 [validated EXCEPT ![p.name] = r.out],
                                 Append(log, LogEntry(p.name, vals[p.name], r)))
              ELSE [ok |-> FALSE, validated |-> validated,
                    log |-> Append(log, LogEntry(p.name, vals[p.name], r)), diag |-> r.diag]
         ELSE TransformSkipNone(sig, i + 1, vals, validated, log)

\* the loop of lines 37-46 from parameter i on; validated is
\* validated_args_map, log the engine calls made so far.  A ** parameter
\* is bound to the mapping it collected; the methods here leave it untyped,
\* so the loop passes over it at line 40.
RECURSIVE TransformFrom(_, _, _, _, _)
TransformFrom(sig, i, vals, validated, log) ==
    IF i > Len(sig) THEN [ok |-> TRUE, validated |-> validated, log |-> log, diag |-> NoDiag]
    ELSE LET p == sig[i] IN
         IF p.name \in {"self", "cls"} \/ p.ann = EmptyT
         THEN TransformFrom(sig, i + 1, vals, validated, log)
         ELSE IF RequiresPydanticValidation(p.ann)
         THEN LET r == ValidatePython(p.ann, vals[p.name]) IN
              IF r.ok
              THEN TransformFrom(sig, i + 1, vals,
                                 [validated EXCEPT ![p.name] = r.out],
                                 Append(log, LogEntry(p.name, vals[p.name], r)))
              ELSE [ok |-> FALSE, validated |-> validated,
                    log |-> Append(log, LogEntry(p.name, vals[p.name], r)), diag |-> r.diag]
         ELSE TransformFrom(sig, i + 1, vals, validated, log)

\* lines 35-48 on a bound signature
Transform(sig, vals) == TransformFrom(sig, 1, vals, vals, <<>>)

\* status "ok": (bound.args, bound.kwargs); "invalid": ValidationError was
\* raised by the engine; "bind_error": TypeError from the second sig.bind
ValidateAndTransform(sig, args, kwargs) ==
    LET b == Bind(sig, args, kwargs) IN
    IF ~b.ok
    THEN [status |-> "bind_error", attempt |-> 0, args |-> args, kwargs |-> kwargs,
          partial |-> EmptyMap, log |-> <<>>, diag |-> NoDiag]
    ELSE LET t == Transform(sig, b.bound.vals)
             npos == IF b.attempt = 1 THEN Len(args) ELSE Len(args) - 1
         IN [status |-> IF t.ok THEN "ok" ELSE "invalid",
             attempt |-> b.attempt,
             args |-> BoundArgs(sig, t.validated, npos),
             kwargs |-> BoundKwargs(sig, t.validated, b.bound.extra),
             partial |-> t.validated,
             log |-> t.log, diag |-> t.diag]

(***************************************************************************)
(* Errors and results                                                      *)
(***************************************************************************)
NoError == [type |-> "none", method_name |-> "", pydantic_error |-> NoDiag]
\* ValidationFailedError(method_name, pydantic_error) (decorators.py 9-13)
ValidationFailedError(method_name, pydantic_error) ==
    [type |-> "ValidationFailedError", method_name |-> method_name,
     pydantic_error |-> pydantic_error]
\* the TypeError of sig.bind, not wrapped
BindTypeError == [type |-> "TypeError", method_name |-> "", pydantic_error |-> NoDiag]

Seen(args, kwargs) == [args |-> args, kwargs |-> kwargs]
NoResult == Seen(<<>>, EmptyMap)
\* the continuation answers with what it finds in the context it holds
Ret(context) == Seen(context.args, context.kwargs)

(***************************************************************************)
(* The inputs of a call                                                    *)
(***************************************************************************)
\* raw mappings, None, a foreign object, an int, an Item built by the caller, a list
PayloadValues == {Good, Bad, NoneVal, Other, IntVal(7), ItemObj(2), ListVal(<<Good, Bad>>)}
RECURSIVE SeqsUpTo(_, _)
SeqsUpTo(S, n) ==
    IF n = 0 THEN {<<>>}
    ELSE LET shorter == SeqsUpTo(S, n - 1) IN
         shorter \cup {Append(q, x) : q \in shorter, x \in S}
Payloads == SeqsUpTo(PayloadValues, MaxPayload)
\* the receiver is the first positional argument, or the calling convention
\* has already removed it
ArgLists == Payloads \cup {<<Receiver>> \o q : q \in Payloads}
KwargChoices ==
    {EmptyMap} \cup
    {[k \in {n} |-> x] : n \in {"item", "limit", "extra_item", "note"}, x \in {Good, Bad}}

Context(name, args, kwargs) ==
    [cls |-> "Service", name |-> name, args |-> args, kwargs |-> kwargs]
Inputs == {Context(n, a, k) : n \in MethodNames, a \in ArgLists, k \in KwargChoices}

\* two calls in flight at once draw from fewer inputs
PairInputs ==
    {Context(n, a, EmptyMap) :
        n \in MethodNames, a \in {<<Receiver, Good>>, <<Receiver, Bad>>, <<Good>>}}

\* declared types up to a nesting depth
LeafTypes == {ItemT, IntT, NoneT, ForwardT, OpaqueOf(<<>>)}
RECURSIVE TypesUpTo(_)
TypesUpTo(d) ==
    IF d = 0 THEN LeafTypes
    ELSE LET inner == TypesUpTo(d - 1) IN
         inner \cup {ListOf(a) : a \in inner}
               \cup {OpaqueOf(<<a>>) : a \in inner}
               \cup {UnionOf(a, b) : a \in inner, b \in LeafTypes}
               \cup {UnionOf(b, a) : a \in inner, b \in LeafTypes}

(***************************************************************************)
(* State machine                                                           *)
(***************************************************************************)
CallIds == {"c1", "c2"}
Calls == DOMAIN pc        \* the calls in flight

InitCalls(ids, inputs) ==
    /\ ctx \in [ids -> inputs]
    /\ entry = [c \in ids |-> Seen(ctx[c].args, ctx[c].kwargs)]
    /\ pc = [c \in ids |-> "ready"]
    /\ attempt = [c \in ids |-> 0]
    /\ engineLog = [c \in ids |-> <<>>]
    /\ nextCalls = [c \in ids |-> 0]
    /\ nextSeen = [c \in ids |-> NoResult]
    /\ result = [c \in ids |-> NoResult]
    /\ error = [c \in ids |-> NoError]

\* one call in flight
Init ==
    /\ InitCalls({"c1"}, Inputs)
    /\ decl = EmptyT
    /\ shape = "pending"

\* two calls in flight on the one interceptor
PairInit ==
    /\ InitCalls({"c1", "c2"}, PairInputs)
    /\ decl = EmptyT
    /\ shape = "pending"

\* no call; a declared type for the classifier
TypeInit ==
    /\ InitCalls({}, Inputs)
    /\ decl \in TypesUpTo(MaxDepth)
    /\ shape = "pending"

\* _call_next_async (interceptor.py 64-68) with the context as it now is:
\* call_next(ctx) runs; a plain result is returned at once, an awaitable
\* one suspends the call.
CallNextAsync(c, context) ==
    /\ nextCalls' = [nextCalls EXCEPT ![c] = @ + 1]
    /\ nextSeen' = [nextSeen EXCEPT ![c] = Seen(context.args, context.kwargs)]
    /\ \/ /\ pc' = [pc EXCEPT ![c] = "done"]
          /\ result' = [result EXCEPT ![c] = Ret(context)]
       \/ /\ pc' = [pc EXCEPT ![c] = "awaiting"]
          /\ UNCHANGED result

\* invoke, lines 10-13: the method is unresolved or carries no flag
InvokeUnmarked(c) ==
    /\ c \in Calls
    /\ pc[c] = "ready"
    /\ ~IsMarked(Lookup(ctx[c].name))
    /\ CallNextAsync(c, ctx[c])
    /\ UNCHANGED <<ctx, entry, attempt, engineLog, error, decl, shape>>

\* the transformed arguments land in every Call Context in flight, as if
\* they were kept on the interceptor
InvokeValidShared(c) ==
    /\ c \in Calls
    /\ pc[c] = "ready"
    /\ IsMarked(Lookup(ctx[c].name))
    /\ LET r == ValidateAndTransform(Lookup(ctx[c].name).sig, ctx[c].args, ctx[c].kwargs) IN
       /\ r.status = "ok"
       /\ ctx' = [d \in Calls |-> [ctx[d] EXCEPT !.args = r.args, !.kwargs = r.kwargs]]
       /\ attempt' = [attempt EXCEPT ![c] = r.attempt]
       /\ engineLog' = [engineLog EXCEPT ![c] = r.log]
       /\ CallNextAsync(c, ctx'[c])
    /\ UNCHANGED <<entry, error, decl, shape>>

\* invoke, lines 15-18 and 22: every parameter validated
InvokeValid(c) ==
    /\ c \in Calls
    /\ pc[c] = "ready"
    /\ IsMarked(Lookup(ctx[c].name))
    /\ LET r == ValidateAndTransform(Lookup(ctx[c].name).sig, ctx[c].args, ctx[c].kwargs) IN
       /\ r.status = "ok"
       /\ ctx' = [ctx EXCEPT ![c].args = r.args, ![c].kwargs = r.kwargs]
       /\ attempt' = [attempt EXCEPT ![c] = r.attempt]
       /\ engineLog' = [engineLog EXCEPT ![c] = r.log]
       /\ CallNextAsync(c, ctx'[c])
    /\ UNCHANGED <<entry, error, decl, shape>>

\* the rejection is logged and the call goes on to the continuation
InvokeInvalidSwallowed(c) ==
    /\ c \in Calls
    /\ pc[c] = "ready"
    /\ IsMarked(Lookup(ctx[c].name))
    /\ LET r == ValidateAndTransform(Lookup(ctx[c].name).sig, ctx[c].args, ctx[c].kwargs) IN
       /\ r.status = "invalid"
       /\ attempt' = [attempt EXCEPT ![c] = r.attempt]
       /\ engineLog' = [engineLog EXCEPT ![c] = r.log]
       /\ CallNextAsync(c, ctx[c])
    /\ UNCHANGED <<ctx, entry, error, decl, shape>>

\* the values validated before the failure are written to the context
InvokeInvalidPartial(c) ==
    /\ c \in Calls
    /\ pc[c] = "ready"
    /\ IsMarked(Lookup(ctx[c].name))
    /\ LET r == ValidateAndTransform(Lookup(ctx[c].name).sig, ctx[c].args, ctx[c].kwargs) IN
       /\ r.status = "invalid"
       /\ attempt' = [attempt EXCEPT ![c] = r.attempt]
       /\ engineLog' = [engineLog EXCEPT ![c] = r.log]
       /\ ctx' = [ctx EXCEPT ![c].args = r.args, ![c].kwargs = r.kwargs]
       /\ error' = [error EXCEPT ![c] = ValidationFailedError(ctx[c].name, r.diag)]
       /\ pc' = [pc EXCEPT ![c] = "raised"]
    /\ UNCHANGED <<entry, nextCalls, nextSeen, result, decl, shape>>

\* invoke, lines 15-20: the engine raised ValidationError during
\* _validate_and_transform, before ctx.args / ctx.kwargs were assigned
InvokeInvalid(c) ==
    /\ c \in Calls
    /\ pc[c] = "ready"
    /\ IsMarked(Lookup(ctx[c].name))
    /\ LET r == ValidateAndTransform(Lookup(ctx[c].name).sig, ctx[c].args, ctx[c].kwargs) IN
       /\ r.status = "invalid"
       /\ attempt' = [attempt EXCEPT ![c] = r.attempt]
       /\ engineLog' = [engineLog EXCEPT ![c] = r.log]
       /\ error' = [error EXCEPT ![c] = ValidationFailedError(ctx[c].name, r.diag)]
       /\ pc' = [pc EXCEPT ![c] = "raised"]
    /\ UNCHANGED <<ctx, entry, nextCalls, nextSeen, result, decl, shape>>

\* invoke, line 16: both sig.bind attempts raised TypeError, which
\* `except ValidationError` does not catch
InvokeBindError(c) ==
    /\ c \in Calls
    /\ pc[c] = "ready"
    /\ IsMarked(Lookup(ctx[c].name))
    /\ LET r == ValidateAndTransform(Lookup(ctx[c].name).sig, ctx[c].args, ctx[c].kwargs) IN
       /\ r.status = "bind_error"
       /\ error' = [error EXCEPT ![c] = BindTypeError]
       /\ pc' = [pc EXCEPT ![c] = "raised"]
    /\ UNCHANGED <<ctx, entry, attempt, engineLog, nextCalls, nextSeen, result, decl, shape>>

\* _call_next_async, line 67: the awaited result arrives
Resume(c) ==
    /\ c \in Calls
    /\ pc[c] = "awaiting"
    /\ pc' = [pc EXCEPT ![c] = "done"]
    /\ result' = [result EXCEPT ![c] = Ret(ctx[c])]
    /\ UNCHANGED <<ctx, entry, attempt, engineLog, nextCalls, nextSeen, error, decl, shape>>

\* _requires_pydantic_validation applied to the declared type
Classify ==
    /\ shape = "pending"
    /\ shape' = IF RequiresPydanticValidation(decl) THEN "validatable" ELSE "not_validatable"
    /\ UNCHANGED <<callVars, decl>>

Next ==
    \E c \in CallIds :
        \/ InvokeUnmarked(c)
        \/ InvokeValid(c)
        \/ InvokeInvalid(c)
        \/ InvokeBindError(c)
        \/ Resume(c)

TypeNext == Classify

Spec == Init /\ [][Next]_vars
PairSpec == PairInit /\ [][Next]_vars
TypeSpec == TypeInit /\ [][TypeNext]_vars

(***************************************************************************)
(* Vocabulary of the properties                                            *)
(***************************************************************************)
SigOf(c)      == Lookup(ctx[c].name).sig
MarkedCall(c) == ctx[c].name \in DOMAIN Methods /\ Methods[ctx[c].name].marked
Forwarded(c)  == pc[c] \in {"awaiting", "done"}      \* the continuation was reached
Rejected(c)   == \E i \in 1..Len(engineLog[c]) : ~engineLog[c][i].ok
EngineCalls(c, n) == {i \in 1..Len(engineLog[c]) : engineLog[c][i].param = n}

\* the positional arguments the successful sig.bind attempt consumed
Effective(c) == IF attempt[c] = 2 THEN Rest(entry[c].args) ELSE entry[c].args
\* the raw value each named parameter was bound to
RawBound(c) == BoundArguments(SigOf(c), Effective(c), entry[c].kwargs).vals
\* the value the continuation finds for named parameter number i
ForwardedValue(c, i) ==
    IF SigOf(c)[i].kind = "POK" THEN ctx[c].args[i] ELSE ctx[c].kwargs[SigOf(c)[i].name]

IsReceiverParam(p) == p.name \in {"self", "cls"}

\* A declared type is validatable when a model type is reached from it
\* through generic wrappers only (List, Union/Optional).
RECURSIVE NodeAt(_, _)
NodeAt(a, path) ==
    IF path = <<>> THEN a ELSE NodeAt(a.args[Head(path)], Tail(path))
RECURSIVE ValidPath(_, _)
ValidPath(a, path) ==
    \/ path = <<>>
    \/ /\ Head(path) \in 1..Len(a.args)
       /\ ValidPath(a.args[Head(path)], Tail(path))
TypePaths == SeqsUpTo({1, 2}, MaxDepth + 1)
ReachesModel(a) ==
    \E path \in TypePaths :
        /\ ValidPath(a, path)
        /\ NodeAt(a, path).t = "Item"
        /\ \A k \in 0..(Len(path) - 1) : NodeAt(a, SubSeq(path, 1, k)).t \in {"List", "Union"}

(***************************************************************************)
(* C1.  For an unmarked method (flag absent, or the name does not resolve  *)
(* on ctx.cls), ctx.args and ctx.kwargs after processing equal their       *)
(* values at entry, and the continuation is invoked exactly once and       *)
(* receives those unchanged arguments.                                     *)
(***************************************************************************)
C1_UnmarkedPassThrough ==
    \A c \in Calls :
        (~MarkedCall(c) /\ pc[c] # "ready") =>
            /\ ctx[c].args = entry[c].args
            /\ ctx[c].kwargs = entry[c].kwargs
            /\ nextCalls[c] = 1
            /\ nextSeen[c] = entry[c]
            /\ error[c] = NoError
            /\ pc[c] \in {"awaiting", "done"}

C1_Witness ==
    \E c \in Calls :
        /\ ctx[c].name = "non_validated"
        /\ entry[c].args = <<Receiver, Good>>
        /\ pc[c] = "done"
        /\ nextCalls[c] = 1

(***************************************************************************)
(* C2.  When the validation engine rejects the raw value of a bound        *)
(* parameter of a marked method, invoke raises ValidationFailedError whose *)
(* method_name is ctx.name and whose pydantic_error is the engine's own    *)
(* error, and the continuation is not invoked.                             *)
(***************************************************************************)
C2_RejectionRaisesWrapped ==
    \A c \in Calls :
        \A i \in 1..Len(engineLog[c]) :
            ~engineLog[c][i].ok =>
                /\ pc[c] = "raised"
                /\ error[c].type = "ValidationFailedError"
                /\ error[c].method_name = ctx[c].name
                /\ error[c].pydantic_error = engineLog[c][i].diag
                /\ nextCalls[c] = 0
                /\ result[c] = NoResult

C2_Witness ==
    \E c \in Calls :
        /\ ctx[c].name = "list_method"
        /\ entry[c].args = <<Receiver, ListVal(<<Good, Bad>>)>>
        /\ pc[c] = "raised"
        /\ error[c].pydantic_error = [loc |-> <<2>>, bad |-> Bad]

(***************************************************************************)
(* C3.  As claimed: in every call the continuation is invoked at most      *)
(* once, and exactly once unless validation of a parameter fails.          *)
(***************************************************************************)
C3_OnceUnlessValidationFails ==
    \A c \in Calls :
        /\ nextCalls[c] <= 1
        /\ pc[c] # "ready" => (nextCalls[c] = 1 <=> ~Rejected(c))

\* both sig.bind attempts raise TypeError for the arguments the call came with
BindingFails(c) ==
    /\ MarkedCall(c)
    /\ ~BindOK(SigOf(c), entry[c].args, entry[c].kwargs)
    /\ ~BindOK(SigOf(c), Rest(entry[c].args), entry[c].kwargs)

(***************************************************************************)
(* C3, amended.  The continuation is invoked at most once; it is invoked   *)
(* exactly once unless validation of a parameter fails or the arguments    *)
(* bind to the signature under neither attempt (the TypeError propagates   *)
(* and the continuation is not invoked).                                   *)
(***************************************************************************)
C3_OnceUnlessInvokeRaises ==
    \A c \in Calls :
        /\ nextCalls[c] <= 1
        /\ pc[c] # "ready" => (nextCalls[c] = 1 <=> ~(Rejected(c) \/ BindingFails(c)))

C3_Witness ==
    \E c \in Calls :
        /\ ctx[c].name = "simple_method"
        /\ entry[c].args = <<Good>>
        /\ pc[c] = "raised"
        /\ error[c] = BindTypeError
        /\ ~Rejected(c)
        /\ nextCalls[c] = 0

(***************************************************************************)
(* C4.  When validation of a parameter fails, ctx.args and ctx.kwargs at   *)
(* the moment the error is raised equal their values at entry, also for    *)
(* parameters validated successfully before the failing one.               *)
(***************************************************************************)
C4_NoPartialMutation ==
    \A c \in Calls :
        (pc[c] = "raised" /\ error[c].type = "ValidationFailedError") =>
            /\ ctx[c].args = entry[c].args
            /\ ctx[c].kwargs = entry[c].kwargs

C4_Witness ==
    \E c \in Calls :
        /\ ctx[c].name = "pair_method"
        /\ entry[c].args = <<Receiver, Good, Bad>>
        /\ pc[c] = "raised"
        /\ Len(engineLog[c]) = 2
        /\ engineLog[c][1].ok /\ engineLog[c][1].out # engineLog[c][1].val
        /\ ~engineLog[c][2].ok

\* the named parameters of call c whose declared type is Optional[...] of a
\* validatable type and whose raw value is None
OptionalNoneParams(c) ==
    {i \in NamedParams(SigOf(c)) :
        /\ SigOf(c)[i].ann.t = "Union"
        /\ NoneT \in Range(SigOf(c)[i].ann.args)
        /\ ReachesModel(SigOf(c)[i].ann)
        /\ RawBound(c)[SigOf(c)[i].name] = NoneVal}

NonReceiverSig(sig) == SelectSeq(sig, LAMBDA p : ~IsReceiverParam(p))
PayloadOf(args) == IF args # <<>> /\ Head(args) = Receiver THEN Rest(args) ELSE args
\* the binder puts every non-receiver parameter where a direct binding of
\* the payload puts it
BindsLike(sig, args, kwargs, reference) ==
    LET b == Bind(sig, args, kwargs) IN
    /\ b.ok
    /\ \A n \in DOMAIN reference : b.bound.vals[n] = reference[n]

(***************************************************************************)
(* C6.  For every marked method and every well-formed argument list for    *)
(* its non-receiver parameters, binding succeeds both when the receiver is *)
(* the first positional argument and when it has already been removed, and *)
(* in both cases each non-receiver parameter is bound to the same value.   *)
(***************************************************************************)
C6_BindingConventionAgnostic ==
    \A c \in Calls :
        LET sig == SigOf(c)
            payload == PayloadOf(entry[c].args)
            kwargs == entry[c].kwargs
        IN (MarkedCall(c) /\ pc[c] # "ready"
              /\ BindOK(NonReceiverSig(sig), payload, kwargs)) =>
             LET reference == BoundArguments(NonReceiverSig(sig), payload, kwargs).vals IN
             /\ BindsLike(sig, <<Receiver>> \o payload, kwargs, reference)
             /\ BindsLike(sig, payload, kwargs, reference)

(***************************************************************************)
(* C7.  After successful processing of a marked method a bound parameter   *)
(* has been passed through the validation engine, and replaced by what the *)
(* engine returned, if and only if its declared type is validatable; a     *)
(* receiver parameter, a parameter with no declared type and a parameter   *)
(* whose declared type is not validatable are forwarded as the value that  *)
(* was passed in.                                                          *)
(***************************************************************************)
C7_TransformedIffValidatable ==
    \A c \in Calls :
        (MarkedCall(c) /\ Forwarded(c)) =>
            /\ \A i \in NamedParams(SigOf(c)) :
                  LET p == SigOf(c)[i]
                      calls == EngineCalls(c, p.name)
                  IN IF ~IsReceiverParam(p) /\ p.ann # EmptyT /\ ReachesModel(p.ann)
                     THEN /\ Cardinality(calls) = 1
                          /\ \A k \in calls :
                                /\ engineLog[c][k].val = RawBound(c)[p.name]
                                /\ ForwardedValue(c, i) = engineLog[c][k].out
                     ELSE /\ calls = {}
                          /\ ForwardedValue(c, i) = RawBound(c)[p.name]
            /\ \A k \in DOMAIN entry[c].kwargs \ NamesOf(SigOf(c), NamedParams(SigOf(c))) :
                  ctx[c].kwargs[k] = entry[c].kwargs[k]

C7_Witness ==
    \E c \in Calls :
        /\ ctx[c].name = "mixed_method"
        /\ entry[c].args = <<Receiver, Good, Other>>
        /\ pc[c] = "done"
        /\ ctx[c].args = <<Receiver, ItemObj(1), Other>>

\* What invoke does to a call that is the only one in flight: the context
\* it leaves, the error it raises, the continuation calls it makes and the
\* result it returns.
Alone(c) ==
    LET name == ctx[c].name
        start == Context(name, entry[c].args, entry[c].kwargs)
        r == ValidateAndTransform(Lookup(name).sig, entry[c].args, entry[c].kwargs)
        after == [start EXCEPT !.args = r.args, !.kwargs = r.kwargs]
    IN IF ~MarkedCall(c)
       THEN [ctx |-> start, error |-> NoError, calls |-> 1, result |-> Ret(start)]
       ELSE CASE r.status = "ok" ->
                    [ctx |-> after, error |-> NoError, calls |-> 1, result |-> Ret(after)]
              [] r.status = "invalid" ->
                    [ctx |-> start, error |-> ValidationFailedError(name, r.diag),
                     calls |-> 0, result |-> NoResult]
              [] OTHER ->
                    [ctx |-> start, error |-> BindTypeError, calls |-> 0, result |-> NoResult]

(***************************************************************************)
(* C8.  With two calls in flight on the one interceptor, each with its own *)
(* Call Context, and a call suspended only while it awaits its             *)
(* continuation's result, under every interleaving each call ends with the *)
(* same Call Context, the same result or error and the same number of      *)
(* continuation invocations as when it runs alone.                         *)
(***************************************************************************)
C8_CallsDoNotInterfere ==
    \A c \in Calls :
        /\ pc[c] = "ready" =>
              /\ ctx[c] = Context(ctx[c].name, entry[c].args, entry[c].kwargs)
              /\ nextCalls[c] = 0
        /\ pc[c] # "ready" =>
              /\ ctx[c] = Alone(c).ctx
              /\ error[c] = Alone(c).error
              /\ nextCalls[c] = Alone(c).calls
              /\ nextSeen[c] = (IF Alone(c).calls = 1 THEN Alone(c).result ELSE NoResult)
        /\ pc[c] = "done" => result[c] = Alone(c).result
        /\ pc[c] = "raised" => (result[c] = NoResult /\ Alone(c).calls = 0)

C8_Witness ==
    /\ Calls = {"c1", "c2"}
    /\ ctx["c1"].name = "simple_method" /\ entry["c1"].args = <<Receiver, Good>>
    /\ ctx["c2"].name = "class_method_op" /\ entry["c2"].args = <<Receiver, Good>>
    /\ pc["c1"] = "awaiting"
    /\ pc["c2"] = "done"
    /\ ctx["c1"].args = <<Receiver, ItemObj(1)>>
    /\ ctx["c2"].args = <<ItemObj(1)>>

(***************************************************************************)
(* C9.  The classifier is total: for every declared type it answers, and   *)
(* it answers validatable exactly when the type is a validatable           *)
(* structured type or a generic wrapper with at least one type argument    *)
(* that is validatable in turn; in every other case, also when inspecting  *)
(* the type raises, it answers not validatable.                            *)
(***************************************************************************)
C9_ClassifierTotalAndExact ==
    shape # "pending" =>
        /\ shape \in {"validatable", "not_validatable"}
        /\ shape = "validatable" <=> ReachesModel(decl)

C9_Witness ==
    /\ decl = ListOf(OptionalOf(ItemT))
    /\ shape = "validatable"

(***************************************************************************)
(* C10.  After successful processing of a marked method ctx.args and       *)
(* ctx.kwargs are rebuilt from the bound signature: every                  *)
(* positional-or-keyword parameter, also one supplied by keyword or filled *)
(* from its default, is forwarded positionally in declaration order;       *)
(* ctx.kwargs holds only the keyword-only parameters and what the **       *)
(* parameter collected; and when binding succeeded only on the retry the   *)
(* original first positional argument is not in the forwarded ctx.args.    *)
(***************************************************************************)
C10_ArgumentsRebuiltFromSignature ==
    \A c \in Calls :
        (MarkedCall(c) /\ Forwarded(c)) =>
            LET sig == SigOf(c)
                pok == PosParams(sig)
                kwonly == NamedParams(sig) \ pok
                collected == DOMAIN entry[c].kwargs \ NamesOf(sig, NamedParams(sig))
                final(i) == IF EngineCalls(c, sig[i].name) = {}
                            THEN RawBound(c)[sig[i].name]
                            ELSE engineLog[c][CHOOSE k \in EngineCalls(c, sig[i].name) : TRUE].out
            IN /\ Len(ctx[c].args) = Cardinality(pok)
               /\ \A i \in pok : ctx[c].args[i] = final(i)
               /\ DOMAIN ctx[c].kwargs = NamesOf(sig, kwonly) \cup collected
               /\ \A i \in kwonly : ctx[c].kwargs[sig[i].name] = final(i)
               /\ \A k \in collected : ctx[c].kwargs[k] = entry[c].kwargs[k]
               /\ attempt[c] = 2 =>
                     /\ entry[c].args # <<>>
                     /\ \A i \in 1..(Len(entry[c].args) - 1) :
                           RawBound(c)[sig[i].name] = entry[c].args[i + 1]
                     /\ Head(entry[c].args) = Receiver => Receiver \notin Range(ctx[c].args)

C10_Witness ==
    \E c \in Calls :
        /\ ctx[c].name = "method_with_defaults"
        /\ entry[c].args = <<Receiver>>
        /\ entry[c].kwargs = [k \in {"item"} |-> Good]
        /\ pc[c] = "done"
        /\ ctx[c].args = <<Receiver, ItemObj(1), IntVal(10)>>
        /\ ctx[c].kwargs = EmptyMap

====
